---- MODULE Spec2Model ----
(***************************************************************************)
(* Stock-movement ledger of the Rich Land inventory system: products,      *)
(* stock transactions, POS sales, purchase orders, customers and payments  *)
(* (richland_inventory/inventory).  Each request handler is a process that *)
(* runs through the database statements of its view in order; statements   *)
(* inside "with transaction.atomic()" write to the transaction's pending   *)
(* set, which becomes visible at commit and is discarded at rollback.      *)
(* Money is counted in whole currency units.                               *)
(***************************************************************************)
EXTENDS Integers, Sequences, FiniteSets, Bags, TLC

\* ------------------------------------------------------------------ bounds
MaxMovements == 3      \* no stock request is started once the ledger holds
                       \* this many rows besides the initial stock
MaxSales == 2          \* no checkout is started once this many sales exist
MaxPayments == 2       \* no payment is started once this many are recorded
InitQuantity == 2      \* on-hand quantity of every product at the start, and
                       \* the largest quantity a request asks for
MaxTender == 2         \* largest amount tendered or paid in one request
CreditLimit == 3       \* credit_limit of the customer who has one
InitReorderLevel == 1  \* reorder_level of every product at the start

Products == {1, 2}
UnknownProduct == 3    \* a product id with no row (Product.DoesNotExist)
Customers == {1, 2}
NoCustomer == 0        \* customer_id absent / unresolved; FK NULL
NoSale == 0            \* pos_sale NULL
NoPO == 0              \* movement not written by a purchase order
NULL == -1             \* selling_price NULL
Procs == {1, 2}        \* concurrently served requests
POs == {1}
SOWs == {1}            \* HydraulicSow rows, saved without a charge so far
SowCustomer == 2       \* the customer the SOW belongs to

\* ------------------------------------------------------------- the schema
PaymentMethods == {"CASH", "CREDIT", "CARD"}
StockOutReasons == {"DAMAGE", "INTERNAL", "CORRECTION", "OTHER"}

\* PurchaseOrderItem rows: the order has two line items.
POItems == << << [product |-> 1, quantity |-> 1], [product |-> 2, quantity |-> 2] >> >>

VARIABLES
    quantity,       \* Product.quantity            [Products -> Nat]
    price,          \* Product.price               [Products -> Nat]
    credit_limit,   \* Customer.credit_limit       [Customers -> Nat]
    sales,          \* POSSale rows, pk = index    Seq(record)
    movements,      \* StockTransaction rows       bag of records
    payments,       \* CustomerPayment rows        bag of records
    po_status,      \* PurchaseOrder.status        [POs -> STRING]
    product_status, \* Product.status             [Products -> STRING]
    reorder_level,  \* Product.reorder_level      [Products -> Nat]
    products,       \* pks of the Product rows    subset of Products
    lock,           \* row lock on a Product row   [Products -> Procs \cup {0}]
    po_lock,        \* row lock on a PurchaseOrder [POs -> Procs \cup {0}]
    proc            \* the request each process is serving

catalog == <<product_status, reorder_level, products>>
db == <<quantity, price, credit_limit, sales, movements, payments, po_status,
        product_status, reorder_level, products>>
locks == <<lock, po_lock>>
vars == <<quantity, price, credit_limit, sales, movements, payments, po_status,
          product_status, reorder_level, products, lock, po_lock, proc>>

\* --------------------------------------------------------------- helpers
RECURSIVE SumFn(_)
SumFn(f) ==
    IF DOMAIN f = {} THEN 0
    ELSE LET x == CHOOSE y \in DOMAIN f : TRUE
         IN  f[x] + SumFn([y \in DOMAIN f \ {x} |-> f[y]])

\* Sum('quantity') over the StockTransaction rows of bag b that are in set S.
SumQuantity(b, S) == SumFn([m \in S |-> m.quantity * CopiesIn(m, b)])

RECURSIVE SeqToBag(_)
SeqToBag(s) == IF s = <<>> THEN EmptyBag ELSE SetToBag({Head(s)}) (+) SeqToBag(Tail(s))

Movement(p, type, reason, q, sp, sale, po) ==
    [product |-> p, transaction_type |-> type, transaction_reason |-> reason,
     quantity |-> q, selling_price |-> sp, pos_sale |-> sale, po |-> po]

\* Number of ledger rows written since the start.
LedgerSize == BagCardinality(movements) - Cardinality(Products)

\* A balance that counts the sales of every payment method.
get_balance_all_sales(c) ==
    LET bought == {i \in DOMAIN sales : sales[i].customer = c}
        paid   == {p \in BagToSet(payments) : p.customer = c}
    IN  SumFn([i \in bought |-> sales[i].total_amount])
        - SumFn([p \in paid |-> p.amount * CopiesIn(p, payments)])

\* Customer.get_balance: credit sales minus payments.
get_balance(c) ==
    LET credit == {i \in DOMAIN sales :
                     sales[i].customer = c /\ sales[i].payment_method = "CREDIT"}
        paid   == {p \in BagToSet(payments) : p.customer = c}
    IN  SumFn([i \in credit |-> sales[i].total_amount])
        - SumFn([p \in paid |-> p.amount * CopiesIn(p, payments)])

\* The pending writes of a transaction that has written nothing.
NoTx == [sale |-> <<>>, movements |-> <<>>, quantity |-> << >>, po_status |-> << >>]

\* pos_sale of a pending movement of the sale its own transaction is creating.
ThisSale == -2

\* f with x mapped to v (a pending row write).
Write(f, x, v) == [y \in DOMAIN f \cup {x} |-> IF y = x THEN v ELSE f[y]]

\* What a transaction reads: its own pending write, else the committed row.
Visible(f, committed, x) == IF x \in DOMAIN f THEN f[x] ELSE committed[x]

Release(r) == [p \in Products |-> IF lock[p] = r THEN 0 ELSE lock[p]]
ReleasePO(r) == [o \in POs |-> IF po_lock[o] = r THEN 0 ELSE po_lock[o]]

Idle(result) ==
    [pc |-> "idle", result |-> result, items |-> <<>>, customer |-> NoCustomer,
     payment_method |-> "", amount_paid |-> 0, total |-> 0, idx |-> 0,
     product |-> 0, sale |-> NoSale, qty |-> 0, read_quantity |-> 0, po |-> NoPO,
     reason |-> "", reported |-> {}, tx |-> NoTx]

Init ==
    /\ quantity = [p \in Products |-> InitQuantity]
    /\ price = [p \in Products |-> p]
    /\ credit_limit = [c \in Customers |-> IF c = 1 THEN 0 ELSE CreditLimit]
    /\ sales = <<>>
    /\ movements = SetToBag({Movement(p, "IN", "INITIAL", InitQuantity, NULL, NoSale, NoPO)
                                : p \in Products})
    /\ payments = EmptyBag
    /\ po_status = [o \in POs |-> "PENDING"]
    /\ product_status = [p \in Products |-> "ACTIVE"]
    /\ reorder_level = [p \in Products |-> InitReorderLevel]
    /\ products = Products
    /\ lock = [p \in Products |-> 0]
    /\ po_lock = [o \in POs |-> 0]
    /\ proc = [r \in Procs |-> Idle("none")]

\* A plain integer column, which takes any value.
IntegerField(v) == TRUE

\* PositiveIntegerField (Product.quantity, StockTransaction.quantity): the
\* column refuses a negative value, and the save raises IntegrityError.
PositiveIntegerField(v) == v >= 0

\* ------------------------------------------------- transaction.atomic()
\* Leaving the atomic block normally: the pending rows become visible and the
\* row locks are released.  The receipt id of a checkout is a fresh token,
\* "REC-" and eight hexadecimal digits of a uuid4.
Commit(r, tx, result) ==
    LET id == Len(sales) + 1
    IN  /\ sales' = IF tx.sale = <<>> THEN sales
                  ELSE Append(sales, [tx.sale[1] EXCEPT !.receipt_id = <<"REC", id>>])
        /\ movements' = movements (+) SeqToBag(
               [i \in DOMAIN tx.movements |->
                   IF tx.movements[i].pos_sale = ThisSale
                   THEN [tx.movements[i] EXCEPT !.pos_sale = id]
                   ELSE tx.movements[i]])
        /\ quantity' = [p \in Products |-> Visible(tx.quantity, quantity, p)]
        /\ po_status' = [o \in POs |-> Visible(tx.po_status, po_status, o)]
        /\ lock' = Release(r)
        /\ po_lock' = ReleasePO(r)
        /\ proc' = [proc EXCEPT ![r] = Idle(result)]
        /\ UNCHANGED <<price, credit_limit, payments, catalog>>

\* A block that is not atomic: what was written before the exception stays.
RollbackKeepsWrites(r, result) == Commit(r, proc[r].tx, result)

\* Leaving the atomic block by an exception: nothing of the transaction stays.
Rollback(r, result) ==
    /\ lock' = Release(r)
    /\ po_lock' = ReleasePO(r)
    /\ proc' = [proc EXCEPT ![r] = Idle(result)]
    /\ UNCHANGED db

\* A response returned outside any transaction.
Respond(r, result) ==
    /\ proc' = [proc EXCEPT ![r] = Idle(result)]
    /\ UNCHANGED <<db, locks>>

\* ------------------------------------------------------------ pos_checkout
\* json.loads, the empty-cart check and the customer lookup.
CheckoutStart(r, items, customer_id, payment_method, raw_amount) ==
    /\ proc[r].pc = "idle"
    /\ LedgerSize < MaxMovements
    /\ Len(sales) < MaxSales
    /\ IF items = <<>>
       THEN Respond(r, "CartEmpty")
       ELSE /\ proc' = [proc EXCEPT ![r] =
                    [Idle("none") EXCEPT
                        !.pc = "co_validate",
                        !.items = items,
                        !.customer = IF customer_id \in Customers
                                     THEN customer_id ELSE NoCustomer,
                        !.payment_method = payment_method,
                        !.amount_paid = raw_amount,
                        !.idx = 1]]
            /\ UNCHANGED <<db, locks>>

\* "if product.quantity < qty": the stock check of checkout and stock-out.
InsufficientStock(available, qty) == available < qty

\* "if customer.credit_limit > 0 and (current_balance + total) > credit_limit"
CreditLimitExceeded(limit, balance, total) == limit > 0 /\ balance + total > limit

\* A cash check that lets a tender one short of the total through.
InsufficientPaymentOneShort(paid, total) == paid + 1 < total

\* "if amount_paid < total_calculated_cost"
InsufficientPayment(paid, total) == paid < total

\* change_given of the sale header.
ChangeGiven(method, paid, total) == IF method = "CASH" THEN paid - total ELSE 0

\* One iteration of the pre-validation loop: an unlocked read of the product.
CheckoutValidate(r) ==
    /\ proc[r].pc = "co_validate"
    /\ LET me == proc[r]
           item == me.items[me.idx]
       IN  IF item.id \notin Products
           THEN Respond(r, "NotFound")
           ELSE IF InsufficientStock(quantity[item.id], item.qty)
           THEN Respond(r, "InsufficientStock")
           ELSE /\ proc' = [proc EXCEPT ![r] =
                        [me EXCEPT
                            !.total = me.total + price[item.id] * item.qty,
                            !.idx = IF me.idx = Len(me.items) THEN 1 ELSE me.idx + 1,
                            !.pc = IF me.idx = Len(me.items)
                                   THEN "co_payment" ELSE "co_validate"]]
                /\ UNCHANGED <<db, locks>>

\* Credit and cash validation, then the sale header, the first statement of
\* the atomic block.
CheckoutPayment(r) ==
    /\ proc[r].pc = "co_payment"
    /\ LET me == proc[r]
           paid == IF me.payment_method = "CREDIT" THEN 0 ELSE me.amount_paid
           header == [receipt_id |-> <<"REC", 0>>,
                      customer |-> me.customer,
                      payment_method |-> me.payment_method,
                      total_amount |-> me.total,
                      amount_paid |-> paid,
                      change_given |-> ChangeGiven(me.payment_method, paid, me.total)]
       IN  IF me.payment_method = "CREDIT" /\ me.customer = NoCustomer
           THEN Respond(r, "CustomerRequired")
           ELSE IF /\ me.payment_method = "CREDIT"
                   /\ CreditLimitExceeded(credit_limit[me.customer],
                                          get_balance(me.customer), me.total)
           THEN Respond(r, "CreditLimitExceeded")
           ELSE IF me.payment_method = "CASH" /\ InsufficientPayment(me.amount_paid, me.total)
           THEN Respond(r, "InsufficientPayment")
           ELSE /\ proc' = [proc EXCEPT ![r] =
                        [me EXCEPT !.pc = "co_items",
                                   !.amount_paid = paid,
                                   !.tx = [NoTx EXCEPT !.sale = <<header>>]]]
                /\ UNCHANGED <<db, locks>>

\* One iteration of the item loop: lock the row, lower the quantity, record the
\* OUT/SALE movement.  Either save may raise IntegrityError.
CheckoutItem(r) ==
    /\ proc[r].pc = "co_items"
    /\ LET me == proc[r]
           item == me.items[me.idx]
           p == item.id
           left == Visible(me.tx.quantity, quantity, p) - item.qty
           row == Movement(p, "OUT", "SALE", item.qty, price[p], ThisSale, NoPO)
       IN  /\ lock[p] \in {0, r}
           /\ IF ~PositiveIntegerField(left) \/ ~PositiveIntegerField(item.qty)
              THEN Rollback(r, "IntegrityError")
              ELSE /\ lock' = [lock EXCEPT ![p] = r]
                   /\ UNCHANGED po_lock
                   /\ proc' = [proc EXCEPT ![r] =
                         [me EXCEPT
                            !.tx.quantity = Write(me.tx.quantity, p, left),
                            !.tx.movements = Append(me.tx.movements, row),
                            !.idx = me.idx + 1,
                            !.pc = IF me.idx = Len(me.items)
                                   THEN "co_commit" ELSE "co_items"]]
                   /\ UNCHANGED db

CheckoutCommit(r) ==
    /\ proc[r].pc = "co_commit"
    /\ Commit(r, proc[r].tx, "Sale")

\* A plain get(): the row is read without waiting for or taking its lock.
get_unlocked(r, p) == UNCHANGED lock

\* "Product.objects.select_for_update().get(pk=...)": waits until no other
\* transaction holds the row lock, then holds it until the transaction ends.
select_for_update(r, p) ==
    /\ lock[p] \in {0, r}
    /\ lock' = [lock EXCEPT ![p] = r]

\* ------------------------------------- ProductDetailView.post (stock out)
\* get_object and the locked re-read of the product inside the atomic block.
StockOutStart(r, p, reason, q) ==
    /\ proc[r].pc = "idle"
    /\ LedgerSize < MaxMovements
    /\ select_for_update(r, p)
    /\ proc' = [proc EXCEPT ![r] =
            [Idle("none") EXCEPT !.pc = "so_locked", !.product = p,
                                 !.reason = reason, !.qty = q,
                                 !.read_quantity = quantity[p]]]
    /\ UNCHANGED <<db, po_lock>>

\* StockOutForm validation (quantity is a PositiveIntegerField, reason one of
\* the manual reasons), the sufficiency check, the two saves and the commit.
StockOutApply(r) ==
    /\ proc[r].pc = "so_locked"
    /\ LET me == proc[r]
           left == me.read_quantity - me.qty
           row == Movement(me.product, "OUT", me.reason, me.qty,
                           IF me.reason = "SALE" THEN price[me.product] ELSE NULL,
                           NoSale, NoPO)
       IN  IF ~PositiveIntegerField(me.qty) \/ me.reason \notin StockOutReasons
           THEN Rollback(r, "FormInvalid")
           ELSE IF InsufficientStock(me.read_quantity, me.qty)
           THEN Rollback(r, "InsufficientStock")
           ELSE Commit(r, [NoTx EXCEPT !.quantity = Write(<< >>, me.product, left),
                                       !.movements = <<row>>], "StockOut")

\* ----------------------------------------------------------- product_refund
\* Rows of the ledger for one product on one sale, by direction and reason.
SaleRows(p, sale, type, reason) ==
    {m \in BagToSet(movements) :
        /\ m.product = p /\ m.pos_sale = sale
        /\ m.transaction_type = type /\ m.transaction_reason = reason}

total_sold(p, sale) == SumQuantity(movements, SaleRows(p, sale, "OUT", "SALE"))
total_returned(p, sale) == SumQuantity(movements, SaleRows(p, sale, "IN", "RETURN"))

\* RefundForm: the receipt must be a sale that holds an OUT/SALE row of the
\* product; the quantity is a PositiveIntegerField.
RefundFormValid(p, sale, q) ==
    /\ sale \in DOMAIN sales
    /\ SaleRows(p, sale, "OUT", "SALE") # {}
    /\ PositiveIntegerField(q)

\* An over-refund check that forgets the units already returned.
OverRefundIgnoresReturned(returned, q, sold) == q > sold

\* "if (total_returned + quantity) > total_sold"
OverRefund(returned, q, sold) == returned + q > sold

\* A refund that forgets to put the returned units back on the shelf.
RestockedDropped(read_quantity, q) == read_quantity

\* "product.quantity += quantity" on the product object of the request.
Restocked(read_quantity, q) == read_quantity + q

\* get_object_or_404: an unlocked read of the product row.
RefundStart(r, p, sale, q) ==
    /\ proc[r].pc = "idle"
    /\ LedgerSize < MaxMovements
    /\ proc' = [proc EXCEPT ![r] =
            [Idle("none") EXCEPT !.pc = "rf_validate", !.product = p, !.sale = sale,
                                 !.qty = q, !.read_quantity = quantity[p]]]
    /\ UNCHANGED <<db, locks>>

\* Form validation, the receipt check and the over-refund check.
RefundValidate(r) ==
    /\ proc[r].pc = "rf_validate"
    /\ LET me == proc[r]
       IN  IF ~RefundFormValid(me.product, me.sale, me.qty)
           THEN Respond(r, "FormInvalid")
           ELSE IF total_sold(me.product, me.sale) = 0
           THEN Respond(r, "NotInReceipt")
           ELSE IF OverRefund(total_returned(me.product, me.sale), me.qty,
                              total_sold(me.product, me.sale))
           THEN Respond(r, "OverRefund")
           ELSE /\ proc' = [proc EXCEPT ![r].pc = "rf_write"]
                /\ UNCHANGED <<db, locks>>

\* The atomic block: the IN/RETURN row and the save of the product object read
\* at the start of the request.  The UPDATE waits for the row lock.
RefundWrite(r) ==
    /\ proc[r].pc = "rf_write"
    /\ LET me == proc[r]
           row == Movement(me.product, "IN", "RETURN", me.qty, price[me.product],
                           me.sale, NoPO)
       IN  /\ lock[me.product] \in {0, r}
           /\ Commit(r, [NoTx EXCEPT
                            !.quantity = Write(<< >>, me.product,
                                               Restocked(me.read_quantity, me.qty)),
                            !.movements = <<row>>], "Refund")

\* PurchaseOrder.STATUS_CHOICES
Statuses == {"PENDING", "COMPLETED", "RECEIVED", "CANCELED"}

\* A view that leaves the test of the status to complete_order alone.
ReceivableUnlessReceived(status) == status # "RECEIVED"

\* "if request.method == 'POST' and po.status == 'COMPLETED'"
Receivable(status) == status = "COMPLETED"

\* ------------------------- receive_purchase_order / PurchaseOrder.complete_order
\* The view: the order is read and, unless it is 'COMPLETED' (arrived), the
\* request is answered with a redirect and nothing else.
ReceiveStart(r, o) ==
    /\ proc[r].pc = "idle"
    /\ IF ~Receivable(po_status[o])
       THEN Respond(r, "NotArrived")
       ELSE /\ proc' = [proc EXCEPT ![r] =
                    [Idle("none") EXCEPT !.pc = "po_save", !.po = o,
                                         !.reason = po_status[o]]]
            /\ UNCHANGED <<db, locks>>

\* A receive that never marks the order as received.
StatusKept(status) == status

\* "self.status = 'RECEIVED'; self.save()"
StatusAfterReceive(status) == "RECEIVED"

\* complete_order: the check of the status the view read, then the save of the
\* order as 'RECEIVED' inside the atomic block (the UPDATE takes the row lock).
ReceiveSave(r) ==
    /\ proc[r].pc = "po_save"
    /\ LET me == proc[r]
       IN  IF me.reason = "RECEIVED"
           THEN Respond(r, "AlreadyReceived")
           ELSE /\ po_lock[me.po] \in {0, r}
                /\ po_lock' = [po_lock EXCEPT ![me.po] = r]
                /\ proc' = [proc EXCEPT ![r] =
                        [me EXCEPT !.pc = "po_read", !.idx = 1,
                                   !.tx = [NoTx EXCEPT
                                       !.po_status = Write(<< >>, me.po,
                                                     StatusAfterReceive(me.reason))]]]
                /\ UNCHANGED <<db, lock>>

\* item.product: the product of the next line item is loaded (no lock).
ReceiveRead(r) ==
    /\ proc[r].pc = "po_read"
    /\ LET me == proc[r]
       IN  IF me.idx > Len(POItems[me.po])
           THEN Commit(r, me.tx, "Received")
           ELSE /\ proc' = [proc EXCEPT ![r] =
                       [me EXCEPT !.pc = "po_write",
                                  !.product = POItems[me.po][me.idx].product,
                                  !.read_quantity =
                                      Visible(me.tx.quantity, quantity,
                                              POItems[me.po][me.idx].product)]]
                /\ UNCHANGED <<db, locks>>

\* The IN/PO row and product.save() for that line item.
ReceiveWrite(r) ==
    /\ proc[r].pc = "po_write"
    /\ LET me == proc[r]
           item == POItems[me.po][me.idx]
           row == Movement(item.product, "IN", "PO", item.quantity, NULL, NoSale, me.po)
       IN  /\ lock[item.product] \in {0, r}
           /\ lock' = [lock EXCEPT ![item.product] = r]
           /\ proc' = [proc EXCEPT ![r] =
                   [me EXCEPT !.pc = "po_read", !.idx = me.idx + 1,
                              !.tx.quantity = Write(me.tx.quantity, item.product,
                                                    me.read_quantity + item.quantity),
                              !.tx.movements = Append(me.tx.movements, row)]]
           /\ UNCHANGED <<db, po_lock>>

\* PurchaseOrderAdmin: staff confirm the delivery, PENDING -> 'COMPLETED'.
MarkArrived(o) ==
    /\ po_status[o] = "PENDING"
    /\ po_lock[o] = 0
    /\ po_status' = [po_status EXCEPT ![o] = "COMPLETED"]
    /\ UNCHANGED <<quantity, price, credit_limit, sales, movements, payments, catalog,
                   locks, proc>>

\* complete_order without the atomic block: what was saved before the
\* exception stays.
ReceiveFailKeepsWrites(r) ==
    /\ proc[r].pc = "po_write"
    /\ Commit(r, proc[r].tx, "ServerError")

\* An exception raised while a line item is processed inside the atomic block
\* of complete_order (a failed INSERT or UPDATE): the view does not catch it.
ReceiveFail(r) ==
    /\ proc[r].pc = "po_write"
    /\ Rollback(r, "ServerError")

\* "product.quantity = max(0, product.quantity - qty)"
Reverted(on_hand, qty) == IF on_hand - qty > 0 THEN on_hand - qty ELSE 0

\* _adjust_stock(request, po, 'OUT'): the quantities after the loop over the
\* line items.
RECURSIVE RevertStock(_, _)
RevertStock(qs, items) ==
    IF items = <<>> THEN qs
    ELSE RevertStock([qs EXCEPT ![Head(items).product] =
                                    Reverted(@, Head(items).quantity)],
                     Tail(items))

\* _adjust_stock(request, po, 'OUT'): one OUT/CORRECTION row per line item.
CorrectionRows(o) ==
    SeqToBag([i \in DOMAIN POItems[o] |->
        Movement(POItems[o][i].product, "OUT", "CORRECTION", POItems[o][i].quantity,
                 NULL, NoSale, o)])

\* PurchaseOrderAdmin change form: save_model stores the chosen status and
\* save_related reverts the stock when the order leaves 'RECEIVED'.  The admin
\* runs the whole change in one transaction.
AdminSave(r, o, status) ==
    /\ proc[r].pc = "idle"
    /\ po_lock[o] = 0
    /\ \A i \in DOMAIN POItems[o] : lock[POItems[o][i].product] = 0
    /\ po_status' = [po_status EXCEPT ![o] = status]
    /\ IF po_status[o] = "RECEIVED" /\ status # "RECEIVED"
       THEN /\ movements' = movements (+) CorrectionRows(o)
            /\ quantity' = RevertStock(quantity, POItems[o])
       ELSE UNCHANGED <<movements, quantity>>
    /\ proc' = [proc EXCEPT ![r] = Idle("Saved")]
    /\ UNCHANGED <<price, credit_limit, sales, payments, catalog, locks>>

\* ------------------------------------------------------ product catalogue
\* The users of the tests: a superuser, a user holding the product
\* permissions and an authenticated user holding none.
Users == {"admin", "manager", "user"}
is_superuser(u) == u = "admin"
has_perm(u, perm) == is_superuser(u) \/ u = "manager"
ProductStatuses == {"ACTIVE", "DEACTIVATED"}

\* ProductUpdateView with ProductUpdateForm: price, reorder_level and status
\* are among its fields, quantity is not.  The UPDATE waits for the row lock.
ProductUpdate(r, u, p, new_price, new_reorder_level, new_status) ==
    /\ proc[r].pc = "idle"
    /\ IF ~has_perm(u, "inventory.change_product")
       THEN Respond(r, "Forbidden")
       ELSE IF p \notin products
       THEN Respond(r, "NotFound")
       ELSE /\ lock[p] \in {0, r}
            /\ price' = [price EXCEPT ![p] = new_price]
            /\ reorder_level' = [reorder_level EXCEPT ![p] = new_reorder_level]
            /\ product_status' = [product_status EXCEPT ![p] = new_status]
            /\ proc' = [proc EXCEPT ![r] = Idle("Updated")]
            /\ UNCHANGED <<quantity, credit_limit, sales, movements, payments, po_status,
                           products, locks>>

\* product_toggle_status
ToggleStatus(r, u, p) ==
    /\ proc[r].pc = "idle"
    /\ IF ~has_perm(u, "inventory.change_product")
       THEN Respond(r, "Forbidden")
       ELSE IF p \notin products
       THEN Respond(r, "NotFound")
       ELSE /\ product_status' = [product_status EXCEPT ![p] =
                    IF product_status[p] = "ACTIVE" THEN "DEACTIVATED" ELSE "ACTIVE"]
            /\ proc' = [proc EXCEPT ![r] = Idle("Toggled")]
            /\ UNCHANGED <<quantity, price, credit_limit, sales, movements, payments,
                           po_status, reorder_level, products, locks>>

\* product.delete(): the row goes, and with it the StockTransaction rows that
\* reference it (on_delete=CASCADE).
DeleteProduct(r, p) ==
    /\ products' = products \ {p}
    /\ movements' = [m \in {x \in BagToSet(movements) : x.product # p}
                        |-> CopiesIn(m, movements)]
    /\ proc' = [proc EXCEPT ![r] = Idle("Deleted")]
    /\ UNCHANGED <<quantity, price, credit_limit, sales, payments, po_status,
                   product_status, reorder_level, locks>>

\* ProductDeleteView, the view behind product/<slug>/delete/: it asks for a
\* login and the permission inventory.delete_product.
ProductDelete(r, u, p) ==
    /\ proc[r].pc = "idle"
    /\ IF ~has_perm(u, "inventory.delete_product")
       THEN Respond(r, "Forbidden")
       ELSE IF p \notin products
       THEN Respond(r, "NotFound")
       ELSE DeleteProduct(r, p)

\* ProductViewSet.destroy (DELETE api/products/<pk>/): permission_classes is
\* IsAuthenticated, which every logged-in user passes.
ApiDelete(r, u, p) ==
    /\ proc[r].pc = "idle"
    /\ IF p \notin products
       THEN Respond(r, "NotFound")
       ELSE DeleteProduct(r, p)

\* ProductAdmin: has_delete_permission is request.user.is_superuser.
AdminDelete(r, u, p) ==
    /\ proc[r].pc = "idle"
    /\ IF ~is_superuser(u)
       THEN Respond(r, "Forbidden")
       ELSE IF p \notin products
       THEN Respond(r, "NotFound")
       ELSE DeleteProduct(r, p)

\* ProductViewSet.update / partial_update (PUT, PATCH api/products/<pk>/):
\* 'quantity' is a writable field of ProductSerializer, and the permission is
\* IsAuthenticated.
ApiUpdate(r, u, p, new_quantity) ==
    /\ proc[r].pc = "idle"
    /\ IF p \notin products
       THEN Respond(r, "NotFound")
       ELSE IF ~PositiveIntegerField(new_quantity)
       THEN Respond(r, "FormInvalid")
       ELSE /\ quantity' = [quantity EXCEPT ![p] = new_quantity]
            /\ proc' = [proc EXCEPT ![r] = Idle("Updated")]
            /\ UNCHANGED <<price, credit_limit, sales, movements, payments, po_status,
                           catalog, locks>>

\* ProductAdmin change list: list_editable = ('quantity', 'price', 'status').
AdminListEdit(r, u, p, new_quantity, new_price, new_status) ==
    /\ proc[r].pc = "idle"
    /\ IF ~is_superuser(u)
       THEN Respond(r, "Forbidden")
       ELSE IF p \notin products
       THEN Respond(r, "NotFound")
       ELSE IF ~PositiveIntegerField(new_quantity)
       THEN Respond(r, "FormInvalid")
       ELSE /\ quantity' = [quantity EXCEPT ![p] = new_quantity]
            /\ price' = [price EXCEPT ![p] = new_price]
            /\ product_status' = [product_status EXCEPT ![p] = new_status]
            /\ proc' = [proc EXCEPT ![r] = Idle("Updated")]
            /\ UNCHANGED <<credit_limit, sales, movements, payments, po_status,
                           reorder_level, products, locks>>

\* ProductCreateView with ProductCreateForm: name and sku are unique, price,
\* quantity and reorder_level are fields of the form, and the status takes its
\* default.  The view saves the form and does nothing else.
ProductCreate(r, u, p, new_price, new_quantity, new_reorder_level) ==
    /\ proc[r].pc = "idle"
    /\ IF ~has_perm(u, "inventory.add_product")
       THEN Respond(r, "Forbidden")
       ELSE IF p \in products \/ ~PositiveIntegerField(new_quantity)
       THEN Respond(r, "FormInvalid")
       ELSE /\ products' = products \cup {p}
            /\ quantity' = [quantity EXCEPT ![p] = new_quantity]
            /\ price' = [price EXCEPT ![p] = new_price]
            /\ reorder_level' = [reorder_level EXCEPT ![p] = new_reorder_level]
            /\ product_status' = [product_status EXCEPT ![p] = "ACTIVE"]
            /\ proc' = [proc EXCEPT ![r] = [Idle("Created") EXCEPT !.product = p]]
            /\ UNCHANGED <<credit_limit, sales, movements, payments, po_status, locks>>

\* A filter on the quantity alone.
low_stock_products_any_status ==
    {p \in products : quantity[p] <= reorder_level[p]}

\* "Product.objects.filter(quantity__lte=F('reorder_level'),
\*                         status=Product.Status.ACTIVE)"
low_stock_products ==
    {p \in products : quantity[p] <= reorder_level[p] /\ product_status[p] = "ACTIVE"}

\* send_low_stock_alerts_task: the mail lists low_stock_products; send_mail
\* may raise, and the task then reports the failure.
LowStockTask(r) ==
    /\ proc[r].pc = "idle"
    /\ IF low_stock_products # {}
       THEN \E outcome \in {"AlertSent", "AlertFailed"} :
                proc' = [proc EXCEPT ![r] =
                            [Idle(outcome) EXCEPT !.reported = low_stock_products]]
       ELSE proc' = [proc EXCEPT ![r] = Idle("NoAlert")]
    /\ UNCHANGED <<db, locks>>

\* ------------------------------------------------------ hydraulic_sow_update
\* The charge of a SOW is the POSSale whose receipt_id is the SOW's id.  When
\* there is one and its total differs from the posted cost, the total is
\* overwritten; when there is none and "charge_account" is ticked for a
\* positive cost, a CREDIT sale of that total is created for the customer.
SowUpdate(r, k, cost, charge_to_account) ==
    /\ proc[r].pc = "idle"
    /\ LET entries == {i \in DOMAIN sales : sales[i].receipt_id = <<"SOW", k>>}
       IN  IF entries # {}
           THEN LET i == CHOOSE j \in entries : TRUE
                IN  IF sales[i].total_amount # cost
                    THEN /\ sales' = [sales EXCEPT ![i].total_amount = cost]
                         /\ proc' = [proc EXCEPT ![r] = Idle("ChargeAdjusted")]
                    ELSE /\ proc' = [proc EXCEPT ![r] = Idle("ChargeKept")]
                         /\ UNCHANGED sales
           ELSE IF charge_to_account /\ cost > 0
           THEN /\ Len(sales) < MaxSales
                /\ sales' = Append(sales, [receipt_id |-> <<"SOW", k>>,
                                           customer |-> SowCustomer,
                                           payment_method |-> "CREDIT",
                                           total_amount |-> cost,
                                           amount_paid |-> 0,
                                           change_given |-> 0])
                /\ proc' = [proc EXCEPT ![r] = Idle("ChargeAdded")]
           ELSE /\ proc' = [proc EXCEPT ![r] = Idle("SowUpdated")]
                /\ UNCHANGED sales
    /\ UNCHANGED <<quantity, price, credit_limit, movements, payments, po_status,
                   catalog, locks>>

\* --------------------------------------------------------- customer_payment
\* Sum of the payments applied to one sale (sale_paid.payments_received).
paid_so_far(sale) ==
    SumFn([p \in {x \in BagToSet(payments) : x.sale_paid = sale}
            |-> p.amount * CopiesIn(p, payments)])

\* CustomerPaymentForm: the amount is at least 0.01; "Apply to Invoice" is
\* empty or one of the customer's credit sales that is not fully paid.
PaymentFormValid(c, sale, amount) ==
    /\ amount >= 1
    /\ \/ sale = NoSale
       \/ /\ sale \in DOMAIN sales
          /\ sales[sale].customer = c
          /\ sales[sale].payment_method = "CREDIT"
          /\ paid_so_far(sale) < sales[sale].total_amount

\* An invoice check that forgets the payments already applied.
ExceedsTotal(amount, total, paid) == amount > total

\* "outstanding = sale_paid.total_amount - paid_so_far;
\*  if amount > outstanding + Decimal('0.001')"
ExceedsOutstanding(amount, total, paid) == amount > total - paid

\* The form and the over-payment check against the invoice or the balance.
PaymentStart(r, c, sale, amount) ==
    /\ proc[r].pc = "idle"
    /\ BagCardinality(payments) < MaxPayments
    /\ IF ~PaymentFormValid(c, sale, amount)
       THEN Respond(r, "FormInvalid")
       ELSE IF /\ sale # NoSale
               /\ ExceedsOutstanding(amount, sales[sale].total_amount, paid_so_far(sale))
       THEN Respond(r, "OverPayment")
       ELSE IF sale = NoSale /\ amount > get_balance(c)
       THEN Respond(r, "OverPaymentGeneral")
       ELSE /\ proc' = [proc EXCEPT ![r] =
                    [Idle("none") EXCEPT !.pc = "pay_save", !.customer = c,
                                         !.sale = sale, !.amount_paid = amount]]
            /\ UNCHANGED <<db, locks>>

\* payment.save()
PaymentSave(r) ==
    /\ proc[r].pc = "pay_save"
    /\ payments' = payments (+) SetToBag({[customer |-> proc[r].customer,
                                           sale_paid |-> proc[r].sale,
                                           amount |-> proc[r].amount_paid]})
    /\ proc' = [proc EXCEPT ![r] = Idle("Payment")]
    /\ UNCHANGED <<quantity, price, credit_limit, sales, movements, po_status, catalog,
                   locks>>

\* ------------------------------------------------------------------ inputs
CartLines == {[id |-> p, qty |-> q] : p \in Products \cup {UnknownProduct}, q \in -1 .. InitQuantity}
Carts == {<<>>} \cup {<<a>> : a \in CartLines} \cup {<<a, b>> : a \in CartLines, b \in CartLines}
StockCarts == {c \in Carts : Len(c) = 2 => \A i \in 1 .. 2 : c[i].id \in Products /\ c[i].qty > 0}

Next ==
    \/ \E items \in StockCarts : CheckoutStart(1, items, NoCustomer, "CARD", 0)
    \/ CheckoutValidate(1)
    \/ CheckoutPayment(1)
    \/ CheckoutItem(1)
    \/ CheckoutCommit(1)
    \/ \E p \in Products, reason \in {"DAMAGE", "SALE"}, q \in -1 .. InitQuantity :
            StockOutStart(1, p, reason, q)
    \/ StockOutApply(1)
    \/ \E p \in Products, sale \in 1 .. MaxSales, q \in 0 .. InitQuantity :
            RefundStart(1, p, sale, q)
    \/ RefundValidate(1)
    \/ RefundWrite(1)
    \/ \E o \in POs : ReceiveStart(1, o)
    \/ ReceiveSave(1)
    \/ ReceiveRead(1)
    \/ ReceiveWrite(1)
    \/ \E o \in POs : proc[1].pc = "idle" /\ MarkArrived(o)

\* Requests served one after the other: stock operations.
Spec == Init /\ [][Next]_vars

\* Checkouts served one after the other, on every cart of one or two lines.
NextCheckout ==
    \/ \E items \in Carts : CheckoutStart(1, items, NoCustomer, "CARD", 0)
    \/ CheckoutValidate(1)
    \/ CheckoutPayment(1)
    \/ CheckoutItem(1)
    \/ CheckoutCommit(1)

SpecCheckout == Init /\ [][NextCheckout]_vars

\* Requests served one after the other: sales on every payment method, and
\* customer payments.
LedgerCarts == {<<[id |-> p, qty |-> 1]>> : p \in Products}

NextLedger ==
    \/ \E items \in LedgerCarts, c \in {NoCustomer} \cup Customers,
          method \in PaymentMethods, paid \in 0 .. MaxTender :
            /\ method # "CASH" => paid = 0
            /\ CheckoutStart(1, items, c, method, paid)
    \/ CheckoutValidate(1)
    \/ CheckoutPayment(1)
    \/ CheckoutItem(1)
    \/ CheckoutCommit(1)
    \/ \E c \in Customers, sale \in 0 .. MaxSales, amount \in 0 .. MaxTender :
            PaymentStart(1, c, sale, amount)
    \/ PaymentSave(1)

SpecLedger == Init /\ [][NextLedger]_vars

\* Requests served one after the other: the purchase-order workflow, with
\* manual stock-outs in between.
NextPO ==
    \/ \E o \in POs : LedgerSize < MaxMovements /\ ReceiveStart(1, o)
    \/ ReceiveSave(1)
    \/ ReceiveRead(1)
    \/ ReceiveWrite(1)
    \/ ReceiveFail(1)
    \/ \E o \in POs, status \in Statuses :
            LedgerSize <= MaxMovements /\ AdminSave(1, o, status)
    \/ \E p \in Products, q \in 1 .. InitQuantity + 1 : StockOutStart(1, p, "DAMAGE", q)
    \/ StockOutApply(1)

SpecPO == Init /\ [][NextPO]_vars

\* Requests served one after the other: catalogue maintenance, manual
\* stock-outs and the low-stock task.
NextCatalog ==
    \/ \E u \in Users, p \in Products, new_reorder_level \in 0 .. InitQuantity,
          new_status \in ProductStatuses :
            ProductUpdate(1, u, p, price[p], new_reorder_level, new_status)
    \/ \E u \in Users, p \in Products : ToggleStatus(1, u, p)
    \/ \E p \in products, q \in 1 .. InitQuantity : StockOutStart(1, p, "DAMAGE", q)
    \/ StockOutApply(1)
    \/ LowStockTask(1)

SpecCatalog == Init /\ [][NextCatalog]_vars

\* Requests served one after the other: every way to edit or delete a
\* product, and manual stock-outs.
NextProduct ==
    \/ \E u \in Users, p \in Products, new_status \in ProductStatuses :
            ProductUpdate(1, u, p, price[p], reorder_level[p], new_status)
    \/ \E u \in Users, p \in Products, new_quantity \in -1 .. InitQuantity :
            ApiUpdate(1, u, p, new_quantity)
    \/ \E u \in Users, p \in Products, new_quantity \in -1 .. InitQuantity,
          new_status \in ProductStatuses :
            AdminListEdit(1, u, p, new_quantity, price[p], new_status)
    \/ \E u \in Users, p \in Products : ProductDelete(1, u, p)
    \/ \E u \in Users, p \in Products : ApiDelete(1, u, p)
    \/ \E u \in Users, p \in Products : AdminDelete(1, u, p)
    \/ \E p \in products, q \in 1 .. InitQuantity : StockOutStart(1, p, "DAMAGE", q)
    \/ StockOutApply(1)

SpecProduct == Init /\ [][NextProduct]_vars

\* Two manual stock-outs of one product served at the same time.
NextStockOut ==
    \E r \in Procs :
        \/ \E reason \in StockOutReasons, q \in 0 .. InitQuantity + 1 :
                StockOutStart(r, 1, reason, q)
        \/ StockOutApply(r)

SpecStockOut == Init /\ [][NextStockOut]_vars

\* Two checkouts of one product served at the same time.
ConcCarts == {<<[id |-> 1, qty |-> q]>> : q \in 1 .. InitQuantity}

NextConc ==
    \E r \in Procs :
        \/ \E items \in ConcCarts : CheckoutStart(r, items, NoCustomer, "CARD", 0)
        \/ CheckoutValidate(r)
        \/ CheckoutPayment(r)
        \/ CheckoutItem(r)
        \/ CheckoutCommit(r)

SpecConc == Init /\ [][NextConc]_vars

\* A checkout served at the same time as a refund or a purchase-order receive
\* on the same product.
NextMixed ==
    \/ \E items \in ConcCarts : CheckoutStart(1, items, NoCustomer, "CARD", 0)
    \/ CheckoutValidate(1)
    \/ CheckoutPayment(1)
    \/ CheckoutItem(1)
    \/ CheckoutCommit(1)
    \/ \E sale \in 1 .. MaxSales, q \in 1 .. InitQuantity : RefundStart(2, 1, sale, q)
    \/ RefundValidate(2)
    \/ RefundWrite(2)
    \/ \E o \in POs : ReceiveStart(2, o)
    \/ ReceiveSave(2)
    \/ ReceiveRead(2)
    \/ ReceiveWrite(2)
    \/ \E o \in POs : MarkArrived(o)

SpecMixed == Init /\ [][NextMixed]_vars

\* A checkout, then refunds on its receipt served at the same time.
NextRefunds ==
    \/ \E items \in ConcCarts : CheckoutStart(1, items, NoCustomer, "CARD", 0)
    \/ CheckoutValidate(1)
    \/ CheckoutPayment(1)
    \/ CheckoutItem(1)
    \/ CheckoutCommit(1)
    \/ \E r \in Procs :
        \/ \E sale \in 1 .. MaxSales, q \in 1 .. InitQuantity : RefundStart(r, 1, sale, q)
        \/ RefundValidate(r)
        \/ RefundWrite(r)

SpecRefunds == Init /\ [][NextRefunds]_vars

\* Receive requests on one purchase order served at the same time, and
\* one-unit stock-outs.
NextReceives ==
    \/ \E o \in POs : MarkArrived(o)
    \/ \E r \in Procs :
        \/ \E o \in POs : ReceiveStart(r, o)
        \/ ReceiveSave(r)
        \/ ReceiveRead(r)
        \/ ReceiveWrite(r)
        \/ ReceiveFail(r)
        \/ \E p \in Products : StockOutStart(r, p, "DAMAGE", 1)
        \/ StockOutApply(r)

SpecReceives == Init /\ [][NextReceives]_vars

\* Two-line carts that name both products, in either order.
TwoLineCarts ==
    {<<[id |-> a, qty |-> 1], [id |-> b, qty |-> 1]>> : a \in Products, b \in Products}
        \ {<<[id |-> a, qty |-> 1], [id |-> a, qty |-> 1]>> : a \in Products}

\* The statements of one checkout request after it has been read.
CheckoutStep(r) ==
    \/ CheckoutValidate(r)
    \/ CheckoutPayment(r)
    \/ CheckoutItem(r)
    \/ CheckoutCommit(r)

\* Two multi-line checkouts served at the same time.
NextCarts ==
    \E r \in Procs :
        \/ \E items \in TwoLineCarts : CheckoutStart(r, items, NoCustomer, "CARD", 0)
        \/ CheckoutStep(r)

\* The server runs every request it has accepted for as long as the request
\* has a statement it can execute.
SpecCarts == Init /\ [][NextCarts]_vars /\ \A r \in Procs : WF_vars(CheckoutStep(r))

\* A checkout served while a manager edits the price of a product.
NextPrice ==
    \/ \E items \in LedgerCarts \cup TwoLineCarts :
            CheckoutStart(1, items, NoCustomer, "CARD", 0)
    \/ CheckoutStep(1)
    \/ \E p \in Products, new_price \in 1 .. Cardinality(Products) :
            ProductUpdate(2, "manager", p, new_price, reorder_level[p], product_status[p])

SpecPrice == Init /\ [][NextPrice]_vars

\* A catalogue that holds product 1 only, with its initial stock row.
InitCatalogue ==
    /\ quantity = [p \in Products |-> IF p = 1 THEN InitQuantity ELSE 0]
    /\ price = [p \in Products |-> p]
    /\ credit_limit = [c \in Customers |-> IF c = 1 THEN 0 ELSE CreditLimit]
    /\ sales = <<>>
    /\ movements = SetToBag({Movement(1, "IN", "INITIAL", InitQuantity, NULL, NoSale, NoPO)})
    /\ payments = EmptyBag
    /\ po_status = [o \in POs |-> "PENDING"]
    /\ product_status = [p \in Products |-> "ACTIVE"]
    /\ reorder_level = [p \in Products |-> InitReorderLevel]
    /\ products = {1}
    /\ lock = [p \in Products |-> 0]
    /\ po_lock = [o \in POs |-> 0]
    /\ proc = [r \in Procs |-> Idle("none")]

\* Requests served one after the other: product creation and manual
\* stock-outs.
NextCreate ==
    \/ \E u \in Users, p \in Products, new_price \in 1 .. Cardinality(Products),
          new_quantity \in -1 .. InitQuantity, new_reorder_level \in 0 .. InitReorderLevel :
            ProductCreate(1, u, p, new_price, new_quantity, new_reorder_level)
    \/ \E p \in products, q \in 1 .. InitQuantity :
            BagCardinality(movements) <= MaxMovements /\ StockOutStart(1, p, "DAMAGE", q)
    \/ StockOutApply(1)

SpecCreate == InitCatalogue /\ [][NextCreate]_vars

\* Requests served one after the other: sales, SOW charges, customer payments
\* and refunds.
NextSow ==
    \/ \E method \in {"CREDIT", "CARD"} :
            CheckoutStart(1, <<[id |-> 1, qty |-> 1]>>, SowCustomer, method, 0)
    \/ CheckoutStep(1)
    \/ \E k \in SOWs, cost \in 0 .. MaxTender, charge_to_account \in BOOLEAN :
            SowUpdate(1, k, cost, charge_to_account)
    \/ \E sale \in 0 .. MaxSales, amount \in 1 .. MaxTender :
            PaymentStart(1, SowCustomer, sale, amount)
    \/ PaymentSave(1)
    \/ \E sale \in 1 .. MaxSales : RefundStart(1, 1, sale, 1)
    \/ RefundValidate(1)
    \/ RefundWrite(1)

SpecSow == Init /\ [][NextSow]_vars

\* Two CREDIT checkouts of one customer served at the same time.
NextCredit ==
    \E r \in Procs :
        \/ \E items \in LedgerCarts, c \in Customers :
                CheckoutStart(r, items, c, "CREDIT", 0)
        \/ CheckoutStep(r)

SpecCredit == Init /\ [][NextCredit]_vars

\* ======================================================================
\* Properties
\* ======================================================================
\* The ledger rows linked to one sale.
BagOfSale(i) == [m \in {x \in BagToSet(movements) : x.pos_sale = i} |-> CopiesIn(m, movements)]

Rows(p, type) == {m \in BagToSet(movements) : m.product = p /\ m.transaction_type = type}

\* C1: every product's quantity equals the sum of its IN movement quantities
\* minus the sum of its OUT movement quantities, after any sequence of
\* checkouts, stock-outs, refunds and purchase-order receives.
QuantityMatchesLedger ==
    \A p \in Products :
        quantity[p] = SumQuantity(movements, Rows(p, "IN"))
                      - SumQuantity(movements, Rows(p, "OUT"))

\* A sale, a manual stock-out, a refund and a purchase-order receive are all
\* on the ledger.
AllFourRecorded ==
    \E a, b, c, d \in BagToSet(movements) :
        /\ a.transaction_type = "OUT" /\ a.transaction_reason = "SALE" /\ a.quantity > 0
        /\ b.transaction_type = "OUT" /\ b.transaction_reason = "DAMAGE" /\ b.quantity > 0
        /\ c.transaction_type = "IN" /\ c.transaction_reason = "RETURN" /\ c.quantity > 0
        /\ d.transaction_type = "IN" /\ d.transaction_reason = "PO"

CheckoutPCs == {"co_validate", "co_payment", "co_items", "co_commit"}

\* Units of product p that a cart asks for, over all its lines.
CartQty(items, p) ==
    SumFn([i \in {j \in DOMAIN items : items[j].id = p} |-> items[i].qty])

\* The OUT/SALE rows of a cart, linked to sale id.
CartRows(items, id) ==
    SeqToBag([i \in DOMAIN items |->
        Movement(items[i].id, "OUT", "SALE", items[i].qty, price[items[i].id], id, NoPO)])

Accepted(r) == proc'[r].pc = "idle" /\ proc'[r].result = "Sale"

\* C2: a step of a checkout with N cart lines either commits one sale, its N
\* OUT/SALE movements linked to that sale and the quantity reductions, or
\* leaves sales, movements and quantities as they were; a checkout that ends
\* in an error has changed nothing.
CheckoutAllOrNothing ==
    [][ \A r \in Procs : proc[r].pc \in CheckoutPCs /\ proc'[r] # proc[r] =>
          \/ /\ Accepted(r)
             /\ Len(sales') = Len(sales) + 1
             /\ SubSeq(sales', 1, Len(sales)) = sales
             /\ movements' = movements (+) CartRows(proc[r].items, Len(sales'))
             /\ \A p \in Products :
                    quantity'[p] = quantity[p] - CartQty(proc[r].items, p)
          \/ /\ ~Accepted(r)
             /\ UNCHANGED db ]_vars

\* A two-line sale is on the books and a later checkout failed inside the
\* atomic block.
TwoLineSaleAndFailure ==
    /\ \E i \in DOMAIN sales :
          BagCardinality(BagOfSale(i)) = 2
    /\ proc[1].result = "IntegrityError"

\* Units of product p sold by the checkouts that were accepted.
SoldUnits(p) ==
    SumQuantity(movements, {m \in Rows(p, "OUT") : m.transaction_reason = "SALE"})

\* C3: for all interleavings of concurrent checkouts against a product that
\* starts with quantity Q, the OUT quantities of the accepted checkouts sum
\* to at most Q.
NoOversell == \A p \in Products : SoldUnits(p) <= InitQuantity

\* One checkout has committed and the other, which had passed the unlocked
\* stock check, was refused on the quantity it read under the row lock.
LaterCheckoutRefused ==
    \E r \in Procs :
        /\ proc[r].result = "IntegrityError"
        /\ Len(sales) = 1
        /\ SoldUnits(1) > 0

RefundPCs == {"rf_validate", "rf_write"}

\* The accepted refunds of every product on every sale stay within the units sold.
RefundWithinSold ==
    \A p \in Products, i \in DOMAIN sales : total_returned(p, i) <= total_sold(p, i)

\* C4: a refund request against a sale that sold S units of the product is
\* accepted only if the units already returned plus the requested units are
\* at most S, so the accepted refunds never sum to more than S; an accepted
\* refund records one IN/RETURN movement and restocks the product, a rejected
\* one records nothing and leaves the quantity unchanged.
RefundBound ==
    /\ []RefundWithinSold
    /\ [][ \A r \in Procs : proc[r].pc \in RefundPCs /\ proc'[r] # proc[r] =>
             LET me == proc[r]
                 row == Movement(me.product, "IN", "RETURN", me.qty,
                                 price[me.product], me.sale, NoPO)
             IN  \/ /\ proc'[r].pc = "idle" /\ proc'[r].result = "Refund"
                    /\ total_returned(me.product, me.sale) + me.qty
                           <= total_sold(me.product, me.sale)
                    /\ movements' = movements (+) SetToBag({row})
                    /\ quantity' = [quantity EXCEPT ![me.product] = @ + me.qty]
                    /\ UNCHANGED sales
                 \/ /\ ~(proc'[r].pc = "idle" /\ proc'[r].result = "Refund")
                    /\ UNCHANGED db ]_vars

\* Every unit sold on a receipt has been returned and one more refund request
\* was turned down.
FullyRefundedThenRefused ==
    /\ proc[1].result = "OverRefund"
    /\ \E p \in Products, i \in DOMAIN sales :
          /\ total_sold(p, i) = InitQuantity
          /\ total_returned(p, i) = total_sold(p, i)

ReceivePCs == {"po_save", "po_read", "po_write"}

\* The IN/PO rows of the line items of order o.
OrderRows(o) ==
    SeqToBag([i \in DOMAIN POItems[o] |->
        Movement(POItems[o][i].product, "IN", "PO", POItems[o][i].quantity, NULL, NoSale, o)])

\* The ledger rows written for order o.
BagOfOrder(o) == [m \in {x \in BagToSet(movements) : x.po = o} |-> CopiesIn(m, movements)]

\* Units of product p on the line items of order o.
OrderQty(o, p) ==
    SumFn([i \in {j \in DOMAIN POItems[o] : POItems[o][j].product = p}
            |-> POItems[o][i].quantity])

\* C5: ReceiveOrder called again on an order that is already RECEIVED creates
\* no movement and changes no quantity: the ledger holds the order's
\* IN/PURCHASE_ORDER rows exactly once when the order is RECEIVED and not at
\* all before, and the one step that writes them is the step that raises the
\* quantities and turns the arrived order RECEIVED.
ReceiveOnce ==
    /\ [](\A o \in POs :
            BagOfOrder(o) = IF po_status[o] = "RECEIVED" THEN OrderRows(o) ELSE EmptyBag)
    /\ [][ \A r \in Procs :
             /\ (proc[r].pc = "idle" /\ proc'[r].result = "NotArrived"
                    /\ proc'[r] # proc[r]) => UNCHANGED db
             /\ (proc[r].pc \in ReceivePCs /\ proc'[r] # proc[r]) =>
                  \/ UNCHANGED db
                  \/ /\ po_status[proc[r].po] = "COMPLETED"
                     /\ po_status'[proc[r].po] = "RECEIVED"
                     /\ movements' = movements (+) OrderRows(proc[r].po)
                     /\ \A p \in Products :
                            quantity'[p] = quantity[p] + OrderQty(proc[r].po, p) ]_vars

\* The order is RECEIVED and a further receive request has been answered.
ReceivedThenCalledAgain ==
    \E o \in POs :
        /\ po_status[o] = "RECEIVED"
        /\ proc[1].result = "NotArrived"
        /\ BagOfOrder(o) = OrderRows(o)

\* Total of the CREDIT sales of customer c among the first n sales.
RECURSIVE CreditSalesUpTo(_, _)
CreditSalesUpTo(c, n) ==
    IF n = 0 THEN 0
    ELSE CreditSalesUpTo(c, n - 1)
         + (IF sales[n].customer = c /\ sales[n].payment_method = "CREDIT"
            THEN sales[n].total_amount ELSE 0)

\* Total of the payments of customer c.
PaymentTotal(c) ==
    SumFn([p \in {x \in BagToSet(payments) : x.customer = c}
            |-> p.amount * CopiesIn(p, payments)])

\* C6: GetBalance is the total of the customer's CREDIT sales minus the total
\* of the customer's payments, whatever the sales and payments are; a new CASH
\* or CARD sale leaves every balance as it was, a new CREDIT sale raises the
\* buyer's balance by its total and a new payment lowers the payer's balance
\* by its amount, so the value always follows the rows.
BalanceIsCreditMinusPayments ==
    /\ [](\A c \in Customers :
            get_balance(c) = CreditSalesUpTo(c, Len(sales)) - PaymentTotal(c))
    /\ [][ \A c \in Customers :
             LET sold == IF /\ Len(sales') = Len(sales) + 1
                            /\ sales'[Len(sales')].customer = c
                            /\ sales'[Len(sales')].payment_method = "CREDIT"
                         THEN sales'[Len(sales')].total_amount ELSE 0
                 paid == IF payments' # payments
                         THEN LET new == CHOOSE p \in BagToSet(payments' (-) payments) : TRUE
                              IN  IF new.customer = c THEN new.amount ELSE 0
                         ELSE 0
             IN  get_balance(c)' = get_balance(c) + sold - paid ]_vars

\* A customer with a sale that is not on credit, a credit sale and a payment.
MixedSalesAndPayment ==
    \E c \in Customers :
        /\ \E i \in DOMAIN sales :
              /\ sales[i].customer = c
              /\ sales[i].payment_method # "CREDIT"
              /\ sales[i].total_amount > 0
        /\ \E i \in DOMAIN sales :
              sales[i].customer = c /\ sales[i].payment_method = "CREDIT"
        /\ PaymentTotal(c) > 0

\* C7: after any sequence of credit checkouts and accepted payments, targeted
\* at a sale or general, no customer's outstanding balance is negative.
BalanceNeverNegative == \A c \in Customers : get_balance(c) >= 0

\* C8: a CREDIT checkout with a positive total for a customer whose credit
\* limit is zero is rejected with CreditLimitExceeded.
ZeroLimitAllowsNoCredit ==
    [][ \A r \in Procs :
          ( /\ proc[r].pc = "co_payment"
            /\ proc'[r] # proc[r]
            /\ proc[r].payment_method = "CREDIT"
            /\ proc[r].customer \in Customers
            /\ credit_limit[proc[r].customer] = 0
            /\ proc[r].total > 0 )
          => /\ proc'[r].result = "CreditLimitExceeded"
             /\ UNCHANGED db ]_vars

\* C9: a CREDIT checkout whose total added to the customer's balance is above
\* the customer's credit limit, or that names no customer, is rejected and
\* creates no sale, no movement and changes no quantity.
CreditOverLimitRejected ==
    [][ \A r \in Procs :
          ( /\ proc[r].pc = "co_payment"
            /\ proc'[r] # proc[r]
            /\ proc[r].payment_method = "CREDIT"
            /\ \/ proc[r].customer = NoCustomer
               \/ get_balance(proc[r].customer) + proc[r].total
                      > credit_limit[proc[r].customer] )
          => /\ proc'[r].result \in {"CreditLimitExceeded", "CustomerRequired"}
             /\ UNCHANGED db ]_vars

ReceiveAllOrNothing ==
    [][ \A r \in Procs :
          (proc[r].pc \in ReceivePCs /\ proc'[r] # proc[r]) =>
            LET o == proc[r].po
                done == /\ po_status' = [po_status EXCEPT ![o] = "RECEIVED"]
                        /\ movements' = movements (+) OrderRows(o)
                        /\ \A p \in Products :
                               quantity'[p] = quantity[p] + OrderQty(o, p)
                        /\ UNCHANGED <<price, credit_limit, sales, payments, catalog>>
            IN  /\ proc'[r].result = "Received" => done
                /\ proc'[r].result # "Received" => UNCHANGED db
                /\ proc'[r].result = "ServerError" => po_status'[o] # "RECEIVED" ]_vars

\* A receive has failed at a line item and nothing of it is stored.
FailedReceiveLeftNothing ==
    \E o \in POs :
        /\ proc[1].result = "ServerError"
        /\ po_status[o] = "COMPLETED"
        /\ BagOfOrder(o) = EmptyBag
        /\ \A p \in Products : quantity[p] = InitQuantity

\* C13: when a RECEIVED order is moved off RECEIVED, one OUT/CORRECTION row
\* per line item is recorded for the ordered quantity and each product's
\* quantity is lowered by exactly that quantity, whatever it was before.
ReversalLowersByOrdered ==
    [][ \A o \in POs :
          (po_status[o] = "RECEIVED" /\ po_status'[o] # "RECEIVED")
          => /\ movements' = movements (+) CorrectionRows(o)
             /\ \A p \in Products : quantity'[p] = quantity[p] - OrderQty(o, p) ]_vars

\* Total of the payments applied to one sale.
AppliedTo(sale) ==
    SumFn([p \in {x \in BagToSet(payments) : x.sale_paid = sale}
            |-> p.amount * CopiesIn(p, payments)])

LowStockSetExact ==
    [][ \A r \in Procs :
          LowStockTask(r) =>
            /\ \A p \in products :
                  p \in proc'[r].reported
                      <=> (quantity[p] <= reorder_level[p] /\ product_status[p] = "ACTIVE")
            /\ proc'[r].reported \subseteq products
            /\ \A p \in products :
                  (product_status[p] = "DEACTIVATED" \/ quantity[p] > reorder_level[p])
                      => p \notin proc'[r].reported
            /\ proc'[r].result = "NoAlert" <=> proc'[r].reported = {} ]_vars

\* The task has reported a low product and left out a deactivated product
\* that is just as low.
AlertLeavesOutDeactivated ==
    /\ proc[1].result = "AlertSent"
    /\ proc[1].reported # {}
    /\ \E p \in products \ proc[1].reported :
          product_status[p] = "DEACTIVATED" /\ quantity[p] <= reorder_level[p]

\* C16: a manual stock-out of n units on a product holding q >= n units
\* lowers the quantity to exactly q - n and records one OUT movement of n;
\* with n > q it is rejected and changes nothing.  This holds however two
\* stock-outs are interleaved.
StockOutExact ==
    [][ \A r \in Procs :
          (StockOutApply(r) /\ proc[r].qty >= 0 /\ proc[r].reason \in StockOutReasons) =>
            LET p == proc[r].product
                n == proc[r].qty
                q == quantity[p]
            IN  IF n > q
                THEN proc'[r].result = "InsufficientStock" /\ UNCHANGED db
                ELSE /\ proc'[r].result = "StockOut"
                     /\ quantity' = [quantity EXCEPT ![p] = q - n]
                     /\ movements' = movements (+) SetToBag(
                            {Movement(p, "OUT", proc[r].reason, n, NULL, NoSale, NoPO)}) ]_vars

\* Two stock-outs on one product were served at the same time: the first took
\* the stock and the second was refused.
SecondStockOutRefused ==
    /\ proc[1].result = "StockOut"
    /\ proc[2].result = "InsufficientStock"
    /\ 0 < quantity[1] /\ quantity[1] < InitQuantity

\* C17: a delete request from a user who is not a superuser, with or without
\* product permissions, leaves the product and its movements in place.
OnlySuperuserDeletes ==
    [][ \A r \in Procs, u \in Users, p \in Products :
          ( /\ ~is_superuser(u)
            /\ p \in products
            /\ ProductDelete(r, u, p) \/ ApiDelete(r, u, p) \/ AdminDelete(r, u, p) )
          => /\ p \in products'
             /\ movements' = movements ]_vars

\* The ledger rows of one product.
RowsOf(b, p) == SumFn([m \in {x \in BagToSet(b) : x.product = p} |-> CopiesIn(m, b)])

\* C18: a product's quantity changes only in a step that records a movement
\* for it; updating its metadata through the update form, the REST API or the
\* admin list never changes it.
QuantityOnlyByMovement ==
    [][ \A p \in products :
          quantity'[p] # quantity[p] => RowsOf(movements', p) = RowsOf(movements, p) + 1 ]_vars

\* C19: a checkout is accepted only if, for every product, the quantities of
\* all the cart lines naming it together are at most the quantity on hand; a
\* cart whose lines for one product together exceed the stock ends without a
\* sale, a movement or a quantity change.
CartTotalWithinStock ==
    [][ \A r \in Procs :
          (proc[r].pc \in CheckoutPCs /\ proc'[r] # proc[r]) =>
            /\ Accepted(r) =>
                  \A p \in Products : CartQty(proc[r].items, p) <= quantity[p]
            /\ (\E p \in Products : CartQty(proc[r].items, p) > quantity[p]) =>
                  ~Accepted(r) /\ UNCHANGED db ]_vars

\* A cart naming one product on two lines, each within the stock and together
\* above it, has passed the pre-validation and had its first line taken.
DuplicateLinesPastValidation ==
    LET me == proc[1]
    IN  /\ me.pc = "co_items"
        /\ me.idx = 2
        /\ Len(me.items) = 2
        /\ me.items[1].id = me.items[2].id
        /\ me.items[1].qty > 0 /\ me.items[2].qty > 0
        /\ me.items[1].qty <= quantity[me.items[1].id]
        /\ me.items[2].qty <= quantity[me.items[1].id]
        /\ CartQty(me.items, me.items[1].id) > quantity[me.items[1].id]

\* C20: however a refund or a purchase-order receive is interleaved with a
\* checkout on the same product, no quantity update is lost: once all of them
\* have committed, every quantity equals its IN movements minus its OUT
\* movements.
NoLostUpdate ==
    (\A r \in Procs : proc[r].pc = "idle") =>
        \A p \in Products :
            quantity[p] + SumQuantity(movements, Rows(p, "OUT"))
                = SumQuantity(movements, Rows(p, "IN"))

\* C21: however refund requests against the same sale and product are
\* interleaved, the accepted refund quantities of a product on a sale sum to
\* at most the units sold on it.
ConcurrentRefundsWithinSold ==
    \A i \in DOMAIN sales :
        SumQuantity(movements, SaleRows(1, i, "IN", "RETURN"))
            <= SumQuantity(movements, SaleRows(1, i, "OUT", "SALE"))

\* C22: however two receive requests on the same arrived order are
\* interleaved, the order's IN/PURCHASE_ORDER rows are written once and each
\* line item's quantity is added to its product once.
ReceivedOnceWhenConcurrent ==
    \A o \in POs :
        /\ \A m \in BagToSet(BagOfOrder(o)) : CopiesIn(m, movements) <= 1
        /\ \A p \in Products : quantity[p] <= InitQuantity + OrderQty(o, p)

\* C23: two multi-line checkouts served at the same time take their product
\* row locks in ascending order of product id, and neither waits forever:
\* every checkout that was started ends, committed or rolled back.
LocksAscendingAndCheckoutsEnd ==
    /\ [][ \A r \in Procs, p \in Products :
              (lock'[p] = r /\ lock[p] # r) => \A q \in Products : lock[q] = r => q < p ]_vars
    /\ \A r \in Procs : (proc[r].pc \in CheckoutPCs) ~> (proc[r].pc = "idle")

\* Quantity times unit price snapshot, over the OUT/SALE rows of sale i.
LineTotals(i) ==
    SumFn([m \in {x \in BagToSet(movements) :
                    /\ x.pos_sale = i /\ x.transaction_type = "OUT"
                    /\ x.transaction_reason = "SALE"}
            |-> m.quantity * m.selling_price * CopiesIn(m, movements)])

\* C24: the total amount of every sale equals the sum over its OUT/SALE
\* movements of quantity times the unit price snapshot, also when a price is
\* changed while the checkout is being served.
TotalIsSumOfLineTotals == \A i \in DOMAIN sales : sales[i].total_amount = LineTotals(i)

\* C25: every order whose status is RECEIVED has the IN/PURCHASE_ORDER stock
\* of each of its line items applied: counting out the reversals, the ledger
\* holds one IN/PURCHASE_ORDER row per line item of the order.
ReceivedHasStockApplied ==
    \A o \in POs :
        po_status[o] = "RECEIVED" =>
            \A i \in DOMAIN POItems[o] :
                LET item == POItems[o][i]
                    in_row == Movement(item.product, "IN", "PO", item.quantity,
                                       NULL, NoSale, o)
                    out_row == Movement(item.product, "OUT", "CORRECTION", item.quantity,
                                        NULL, NoSale, o)
                IN  CopiesIn(in_row, movements) - CopiesIn(out_row, movements) = 1

\* The status changes of the purchase-order workflow: arrival, receipt,
\* cancellation before receipt, and the manual reversal off RECEIVED.
WorkflowChanges ==
    {<<"PENDING", "COMPLETED">>, <<"COMPLETED", "RECEIVED">>,
     <<"PENDING", "CANCELED">>, <<"COMPLETED", "CANCELED">>}
        \cup {<<"RECEIVED", status>> : status \in Statuses \ {"RECEIVED"}}

\* C26: an order starts PENDING and its status changes only along the
\* workflow; a CANCELED order never changes status again and no movement is
\* ever written for it.
StatusFollowsWorkflow ==
    /\ \A o \in POs : po_status[o] = "PENDING"
    /\ [][ \A o \in POs :
              /\ po_status'[o] # po_status[o] =>
                     <<po_status[o], po_status'[o]>> \in WorkflowChanges
              /\ po_status[o] = "CANCELED" =>
                     /\ po_status'[o] = "CANCELED"
                     /\ BagOfOrder(o)' = BagOfOrder(o) ]_vars

\* C27: creating a product with an initial quantity q > 0 records, in the
\* same step, one IN movement of quantity q with reason INITIAL_STOCK for it,
\* so the new product's quantity equals its IN movements minus its OUT
\* movements.
CreationRecordsInitialStock ==
    [][ \A r \in Procs, p \in Products :
          ( /\ p \notin products /\ p \in products'
            /\ quantity'[p] > 0 )
          => /\ movements' = movements (+) SetToBag(
                    {Movement(p, "IN", "INITIAL", quantity'[p], NULL, NoSale, NoPO)})
             /\ quantity'[p] = SumQuantity(movements', {m \in BagToSet(movements') :
                                    m.product = p /\ m.transaction_type = "IN"})
                               - SumQuantity(movements', {m \in BagToSet(movements') :
                                    m.product = p /\ m.transaction_type = "OUT"}) ]_vars

\* C28: every recorded movement has a quantity of at least 1.
EveryMovementAtLeastOne == \A m \in BagToSet(movements) : m.quantity >= 1

\* C29: once a sale is created, its total amount, payment mode, customer and
\* receipt id never change under any later operation.
SaleHeaderImmutable ==
    [][ \A i \in DOMAIN sales :
          /\ i \in DOMAIN sales'
          /\ sales'[i].total_amount = sales[i].total_amount
          /\ sales'[i].payment_method = sales[i].payment_method
          /\ sales'[i].customer = sales[i].customer
          /\ sales'[i].receipt_id = sales[i].receipt_id ]_vars

\* C30: however CREDIT checkouts of one customer are interleaved, the
\* outstanding balance of a customer with a positive credit limit never
\* exceeds that limit.
BalanceWithinCreditLimit ==
    \A c \in Customers : credit_limit[c] > 0 => get_balance(c) <= credit_limit[c]

====
